---- MODULE Spec2Model ----
(***************************************************************************)
(* Model of pkg/util/log/log.go: the klog-backed logr.Logger (type log)    *)
(* and the disabled logger (type silent).                                  *)
(*                                                                         *)
(* The Go heap is explicit: every &log{} / &silent{} is an entry of objs,  *)
(* every []string backing array an entry of mem, and a slice is a header   *)
(* (arr, len, cap) as in the Go runtime, so that sharing a prefixes slice  *)
(* (WithDepth, WithName("")) and copying it (V, WithValues, WithName) are  *)
(* different things.                                                       *)
(***************************************************************************)
EXTENDS Integers, Sequences, FiniteSets, TLC

VARIABLES
    objs,    \* heap of logger objects; a handle is an index into objs
    mem,     \* heap of []string backing arrays; mem[a] has length cap
    origin,  \* history: the call that created each handle
    last,    \* the most recent completed call, its result and backend calls
    cur,     \* per goroutine: the logger it currently holds
    pc,      \* per goroutine: position inside the call it is executing
    frame    \* per goroutine: the call's arguments and locals

vars == <<objs, mem, origin, last, cur, pc, frame>>

----------------------------------------------------------------------------
(* Bounds *)

MaxObjs == 3          \* logger objects allocated in a sequential run
MaxDerive == 2        \* derivations the concurrent callers perform in total

(* Input domains *)

Thresholds == {0, 1}
Levels == {0, 1}
Depths == {2, 3}
Names == {"", "a", "b"}
Msgs == {"failed"}

StrVal(s) == [t |-> "string", s |-> s, n |-> 0]
ErrVal(s) == [t |-> "error", s |-> s, n |-> 0]
IntVal(n) == [t |-> "int", s |-> "", n |-> n]
NilValue == [t |-> "nil", s |-> "", n |-> 0]

KVs == { <<>>, <<StrVal("")>>, <<StrVal("id"), IntVal(42)>> }
CtxKVs == { <<>>, <<StrVal("id"), IntVal(42)>> }
ConcKVs == << StrVal("id"), IntVal(42) >>
ConcDepths == {3}
ConcNames == {"", "a"}
ConcThresholds == {1}
BaseNames == << "svc", "worker", "core" >>
ErrorArgs ==
    { << ErrVal("boom"), << >> >>,
      << NilValue, << StrVal("id"), IntVal(42) >> >> }

Goroutines == {1, 2}

----------------------------------------------------------------------------
(* strings and slices *)

RECURSIVE Join(_, _)
Join(elems, sep) ==
    IF Len(elems) = 0 THEN ""
    ELSE IF Len(elems) = 1 THEN elems[1]
    ELSE elems[1] \o sep \o Join(Tail(elems), sep)

\* the type switch of formatKeysAndValues; %#v of an int is its decimal
\* form and %#v of a nil interface is <nil>
RenderValue(kv) ==
    CASE kv.t = "string" -> kv.s
      [] kv.t = "error" -> kv.s
      [] kv.t = "int" -> ToString(kv.n)
      [] OTHER -> "<nil>"

formatKeysAndValues(keysAndValues) ==
    Join([i \in 1..Len(keysAndValues) |-> RenderValue(keysAndValues[i])], " ")

EmptySlice == [arr |-> 0, len |-> 0, cap |-> 0]

SliceElems(m, s) == [i \in 1..s.len |-> m[s.arr][i]]

\* runtime growslice for capacities below 256
GrowCap(oldcap, newLen) == IF newLen > 2 * oldcap THEN newLen ELSE 2 * oldcap

\* append(s, elems...): in place when the capacity allows, else a new array
GoAppend(m, s, elems) ==
    LET n == Len(elems)
        newLen == s.len + n
    IN  IF n = 0 THEN [mem |-> m, s |-> s]
        ELSE IF newLen <= s.cap
        THEN [mem |-> [m EXCEPT ![s.arr] =
                        [i \in 1..s.cap |->
                            IF i > s.len /\ i <= newLen
                            THEN elems[i - s.len] ELSE @[i]]],
              s |-> [s EXCEPT !.len = newLen]]
        ELSE LET newcap == GrowCap(s.cap, newLen)
             IN [mem |-> Append(m, [i \in 1..newcap |->
                                IF i <= s.len THEN m[s.arr][i]
                                ELSE IF i <= newLen THEN elems[i - s.len]
                                ELSE ""]),
                 s |-> [arr |-> Len(m) + 1, len |-> newLen, cap |-> newcap]]

\* variant: prefixes := l.prefixes, the receiver's slice used without a copy
SharePrefixes(m, src) == [mem |-> m, s |-> src]

\* prefixes := []string{}; prefixes = append(prefixes, l.prefixes...)
CopyPrefixes(m, src) == GoAppend(m, EmptySlice, SliceElems(m, src))

----------------------------------------------------------------------------
(* objects *)

LogObj(level, current, prefixes, depth) ==
    [kind |-> "log", level |-> level, current |-> current,
     prefixes |-> prefixes, depth |-> depth]

SilentObj ==
    [kind |-> "silent", level |-> 0, current |-> 0,
     prefixes |-> EmptySlice, depth |-> 0]

\* method sets of *log and *silent
MethodSet(kind) ==
    IF kind = "log"
    THEN {"Info", "Enabled", "Error", "V", "WithValues", "WithName", "WithDepth"}
    ELSE {"Info", "Enabled", "Error", "V", "WithValues", "WithName"}

NewLog(level) == LogObj(level, 0, EmptySlice, 1)

Alloc(H, o, m) ==
    [objs |-> Append(H.objs, o), mem |-> m, ret |-> Len(H.objs) + 1]

\* variant: the current field left out of the composite literal
log_WithDepth_dropsCurrent(H, l, depth) ==
    LET o == H.objs[l]
    IN  Alloc(H, LogObj(o.level, 0, o.prefixes, depth), H.mem)

log_WithDepth(H, l, depth) ==
    LET o == H.objs[l]
    IN  Alloc(H, LogObj(o.level, o.current, o.prefixes, depth), H.mem)

\* variant: the gate compares with the receiver's current level
log_V_gatesOnCurrent(H, l, level) ==
    LET o == H.objs[l]
    IN  IF level < o.current
        THEN Alloc(H, SilentObj, H.mem)
        ELSE LET c == CopyPrefixes(H.mem, o.prefixes)
             IN Alloc(H, LogObj(o.level, level, c.s, o.depth), c.mem)

log_V(H, l, level) ==
    LET o == H.objs[l]
    IN  IF level < o.level
        THEN Alloc(H, SilentObj, H.mem)
        ELSE LET c == CopyPrefixes(H.mem, o.prefixes)
             IN Alloc(H, LogObj(o.level, level, c.s, o.depth), c.mem)

\* variant: the depth field left out of the composite literal
log_WithValues_dropsDepth(H, l, keysAndValues) ==
    LET o == H.objs[l]
        c == CopyPrefixes(H.mem, o.prefixes)
        a == GoAppend(c.mem, c.s, <<formatKeysAndValues(keysAndValues)>>)
    IN  Alloc(H, LogObj(o.level, o.current, a.s, 0), a.mem)

log_WithValues(H, l, keysAndValues) ==
    LET o == H.objs[l]
        c == CopyPrefixes(H.mem, o.prefixes)
        a == GoAppend(c.mem, c.s, <<formatKeysAndValues(keysAndValues)>>)
    IN  Alloc(H, LogObj(o.level, o.current, a.s, o.depth), a.mem)

\* variant: l.prefixes = append(l.prefixes, name); return l
log_WithName_mutatesReceiver(H, l, name) ==
    LET o == H.objs[l]
        a == GoAppend(H.mem, o.prefixes, <<name>>)
    IN  IF name = ""
        THEN [objs |-> H.objs, mem |-> H.mem, ret |-> l]
        ELSE [objs |-> [H.objs EXCEPT ![l].prefixes = a.s], mem |-> a.mem,
              ret |-> l]

\* variant: the name put in front of the receiver's prefixes
log_WithName_prepends(H, l, name) ==
    LET o == H.objs[l]
    IN  IF name = ""
        THEN Alloc(H, LogObj(o.level, o.current, o.prefixes, o.depth), H.mem)
        ELSE LET a == GoAppend(H.mem, EmptySlice,
                               <<name>> \o SliceElems(H.mem, o.prefixes))
             IN Alloc(H, LogObj(o.level, o.current, a.s, o.depth), a.mem)

\* variant: the empty-name copy leaves out the current field
log_WithName_emptyDropsCurrent(H, l, name) ==
    LET o == H.objs[l]
    IN  IF name = ""
        THEN Alloc(H, LogObj(o.level, 0, o.prefixes, o.depth), H.mem)
        ELSE LET c == CopyPrefixes(H.mem, o.prefixes)
                 a == GoAppend(c.mem, c.s, <<name>>)
             IN Alloc(H, LogObj(o.level, o.current, a.s, o.depth), a.mem)

log_WithName(H, l, name) ==
    LET o == H.objs[l]
    IN  IF name = ""
        THEN Alloc(H, LogObj(o.level, o.current, o.prefixes, o.depth), H.mem)
        ELSE LET c == CopyPrefixes(H.mem, o.prefixes)
                 a == GoAppend(c.mem, c.s, <<name>>)
             IN Alloc(H, LogObj(o.level, o.current, a.s, o.depth), a.mem)

\* variant: the prefix is written without testing it for emptiness
formatMsg_alwaysPrefix(prefixElems, msg, keysAndValues) ==
    LET prefixes == Join(prefixElems, ": ")
        addString == formatKeysAndValues(keysAndValues)
        withPrefix == prefixes \o ": " \o msg
    IN  IF addString # "" THEN withPrefix \o " " \o addString ELSE withPrefix

formatMsg(prefixElems, msg, keysAndValues) ==
    LET prefixes == Join(prefixElems, ": ")
        addString == formatKeysAndValues(keysAndValues)
        withPrefix == IF prefixes # "" THEN prefixes \o ": " \o msg ELSE msg
    IN  IF addString # "" THEN withPrefix \o " " \o addString ELSE withPrefix

BackendCall(fn, depth, line) == [fn |-> fn, depth |-> depth, line |-> line]

log_Info(H, l, msg, keysAndValues) ==
    LET o == H.objs[l]
    IN  << BackendCall("InfoDepth", o.depth,
               formatMsg(SliceElems(H.mem, o.prefixes), msg, keysAndValues)) >>

\* variant: err appended after the pairs
log_Error_errLast(H, l, err, msg, keysAndValues) ==
    LET o == H.objs[l]
        newKeysAndValues == keysAndValues \o <<err>>
    IN  << BackendCall("ErrorDepth", o.depth,
               formatMsg(SliceElems(H.mem, o.prefixes), msg, newKeysAndValues)) >>

log_Error(H, l, err, msg, keysAndValues) ==
    LET o == H.objs[l]
        newKeysAndValues == <<err>> \o keysAndValues
    IN  << BackendCall("ErrorDepth", o.depth,
               formatMsg(SliceElems(H.mem, o.prefixes), msg, newKeysAndValues)) >>

silent_Derive(H, s) == [objs |-> H.objs, mem |-> H.mem, ret |-> s]

silent_Emit == << >>

----------------------------------------------------------------------------
(* calls, one action per method; the receiver's dynamic type selects the   *)
(* implementation                                                          *)

Handles == 1..Len(objs)
Heap == [objs |-> objs, mem |-> mem]
IsLog(h) == objs[h].kind = "log"

NoArgs == [n |-> 0, name |-> "", msg |-> "", kvs |-> <<>>, err |-> NilValue]

Call(op, recv, ret, args, out) ==
    [op |-> op, recv |-> recv, ret |-> ret, n |-> args.n, name |-> args.name,
     msg |-> args.msg, kvs |-> args.kvs, err |-> args.err, out |-> out]

\* what is observable of an object: its fields, with the prefixes as the
\* strings the slice holds
FieldsOf(o, elems) ==
    [kind |-> o.kind, level |-> o.level, current |-> o.current,
     prefixes |-> elems, depth |-> o.depth]

Origin(parent, op, args, o, elems) ==
    [parent |-> parent, op |-> op, n |-> args.n, name |-> args.name,
     kvs |-> args.kvs, born |-> FieldsOf(o, elems)]

\* a call that returns a logger: the heap after it, the history of a newly
\* allocated object, and the call record
Returned(op, h, args, r) ==
    /\ objs' = r.objs
    /\ mem' = r.mem
    /\ origin' = IF r.ret > Len(objs)
                 THEN Append(origin,
                             Origin(h, op, args, r.objs[r.ret],
                                    SliceElems(r.mem, r.objs[r.ret].prefixes)))
                 ELSE origin
    /\ last' = Call(op, h, r.ret, args, <<>>)

Idle == UNCHANGED <<cur, pc, frame>>

V(h, level) ==
    /\ IsLog(h) => Len(objs) < MaxObjs
    /\ Returned("V", h, [NoArgs EXCEPT !.n = level],
                IF IsLog(h) THEN log_V(Heap, h, level)
                ELSE silent_Derive(Heap, h))
    /\ Idle

WithValues(h, keysAndValues) ==
    /\ IsLog(h) => Len(objs) < MaxObjs
    /\ Returned("WithValues", h, [NoArgs EXCEPT !.kvs = keysAndValues],
                IF IsLog(h) THEN log_WithValues(Heap, h, keysAndValues)
                ELSE silent_Derive(Heap, h))
    /\ Idle

WithName(h, name) ==
    /\ IsLog(h) => Len(objs) < MaxObjs
    /\ Returned("WithName", h, [NoArgs EXCEPT !.name = name],
                IF IsLog(h) THEN log_WithName(Heap, h, name)
                ELSE silent_Derive(Heap, h))
    /\ Idle

\* callers reach WithDepth through the WithDepth interface; on a value whose
\* type lacks the method the type assertion fails and no logger is returned
WithDepth(h, depth) ==
    /\ IsLog(h) => Len(objs) < MaxObjs
    /\ Returned("WithDepth", h, [NoArgs EXCEPT !.n = depth],
                IF "WithDepth" \in MethodSet(objs[h].kind)
                THEN log_WithDepth(Heap, h, depth)
                ELSE [objs |-> objs, mem |-> mem, ret |-> 0])
    /\ Idle

Info(h, msg, keysAndValues) ==
    /\ last' = Call("Info", h, 0,
                    [NoArgs EXCEPT !.msg = msg, !.kvs = keysAndValues],
                    IF IsLog(h) THEN log_Info(Heap, h, msg, keysAndValues)
                    ELSE silent_Emit)
    /\ UNCHANGED <<objs, mem, origin>>
    /\ Idle

Error(h, err, msg, keysAndValues) ==
    /\ last' = Call("Error", h, 0,
                    [NoArgs EXCEPT !.msg = msg, !.kvs = keysAndValues,
                                   !.err = err],
                    IF IsLog(h) THEN log_Error(Heap, h, err, msg, keysAndValues)
                    ELSE silent_Emit)
    /\ UNCHANGED <<objs, mem, origin>>
    /\ Idle

Init ==
    \E level \in Thresholds :
        /\ objs = << NewLog(level) >>
        /\ mem = << >>
        /\ origin = << Origin(0, "NewLog", [NoArgs EXCEPT !.n = level],
                              NewLog(level), << >>) >>
        /\ last = Call("NewLog", 0, 1, [NoArgs EXCEPT !.n = level], <<>>)
        /\ cur = [g \in Goroutines |-> 1]
        /\ pc = [g \in Goroutines |-> "idle"]
        /\ frame = [g \in Goroutines |-> 0]

Next ==
    \/ \E h \in Handles, level \in Levels : V(h, level)
    \/ \E h \in Handles, kvs \in CtxKVs : WithValues(h, kvs)
    \/ \E h \in Handles, name \in Names : WithName(h, name)
    \/ \E h \in Handles, depth \in Depths : WithDepth(h, depth)
    \/ \E h \in Handles, msg \in Msgs, kvs \in KVs : Info(h, msg, kvs)
    \/ \E h \in Handles, a \in ErrorArgs, msg \in Msgs :
            Error(h, a[1], msg, a[2])

Spec == Init /\ [][Next]_vars

----------------------------------------------------------------------------
(* Concurrent callers.  A base logger is built at startup by               *)
(* NewLog(level).WithName(..)... and then shared by the goroutines; each   *)
(* goroutine holds a logger (the base at first), logs through it and       *)
(* replaces it by loggers derived from it (l = l.WithName(..)).  A call is *)
(* split at its accesses to shared memory: reading the receiver's prefixes *)
(* header, copying the backing array, appending, and publishing the new    *)
(* object or calling klog.                                                 *)

DeriveOps == {"V", "WithValues", "WithName", "WithDepth"}
EmitOps == {"Info", "Error"}

RECURSIVE Build(_, _)
Build(H, names) ==
    IF Len(names) = 0 THEN H
    ELSE Build(log_WithName(H, Len(H.objs), names[1]), Tail(names))

BaseHeap(level) ==
    Build([objs |-> << NewLog(level) >>, mem |-> << >>, ret |-> 1], BaseNames)

Base == Len(BaseNames) + 1

Frame(op, recv, args) ==
    [op |-> op, recv |-> recv, n |-> args.n, name |-> args.name,
     msg |-> args.msg, kvs |-> args.kvs, err |-> args.err,
     src |-> EmptySlice, p |-> EmptySlice]

FrameArgs(f) ==
    [n |-> f.n, name |-> f.name, msg |-> f.msg, kvs |-> f.kvs, err |-> f.err]

InFlight ==
    Cardinality({ g \in Goroutines : pc[g] # "idle" /\ frame[g].op \in DeriveOps })

Begin(g, op, args) ==
    /\ pc[g] = "idle"
    /\ op \in DeriveOps => Len(objs) + InFlight < Base + MaxDerive
    /\ pc' = [pc EXCEPT ![g] = "load"]
    /\ frame' = [frame EXCEPT ![g] = Frame(op, cur[g], args)]
    /\ UNCHANGED <<objs, mem, origin, last, cur>>

Finish(g, ret, out) ==
    /\ last' = Call(frame[g].op, frame[g].recv, ret, FrameArgs(frame[g]), out)
    /\ cur' = [cur EXCEPT ![g] = IF ret # 0 THEN ret ELSE @]
    /\ pc' = [pc EXCEPT ![g] = "idle"]
    /\ frame' = [frame EXCEPT ![g] = 0]

Publish(g, o) ==
    /\ objs' = Append(objs, o)
    /\ origin' = Append(origin,
                    Origin(frame[g].recv, frame[g].op, FrameArgs(frame[g]),
                           o, SliceElems(mem, o.prefixes)))
    /\ Finish(g, Len(objs) + 1, <<>>)

\* the receiver is dereferenced: silent methods and a failed WithDepth
\* assertion complete here, V checks the threshold, the others read
\* l.prefixes
Load(g) ==
    /\ pc[g] = "load"
    /\ LET f == frame[g]
           o == objs[f.recv]
       IN  IF o.kind = "silent"
           THEN /\ Finish(g, IF f.op \in EmitOps \/ f.op = "WithDepth"
                             THEN 0 ELSE f.recv, silent_Emit)
                /\ UNCHANGED <<objs, mem, origin>>
           ELSE IF f.op = "V" /\ f.n < o.level
           THEN /\ Publish(g, SilentObj)
                /\ UNCHANGED mem
           ELSE /\ frame' = [frame EXCEPT ![g].src = o.prefixes,
                                          ![g].p = o.prefixes]
                /\ pc' = [pc EXCEPT ![g] =
                            IF f.op \in EmitOps THEN "emit"
                            ELSE IF f.op = "WithDepth"
                                    \/ (f.op = "WithName" /\ f.name = "")
                            THEN "ret" ELSE "copy"]
                /\ UNCHANGED <<objs, mem, origin, last, cur>>

Copy(g) ==
    /\ pc[g] = "copy"
    /\ LET c == CopyPrefixes(mem, frame[g].src)
       IN  /\ mem' = c.mem
           /\ frame' = [frame EXCEPT ![g].p = c.s]
    /\ pc' = [pc EXCEPT ![g] = IF frame[g].op = "V" THEN "ret" ELSE "append"]
    /\ UNCHANGED <<objs, origin, last, cur>>

AppendEntry(g) ==
    /\ pc[g] = "append"
    /\ LET f == frame[g]
           entry == IF f.op = "WithName" THEN f.name
                    ELSE formatKeysAndValues(f.kvs)
           a == GoAppend(mem, f.p, <<entry>>)
       IN  /\ mem' = a.mem
           /\ frame' = [frame EXCEPT ![g].p = a.s]
    /\ pc' = [pc EXCEPT ![g] = "ret"]
    /\ UNCHANGED <<objs, origin, last, cur>>

Ret(g) ==
    /\ pc[g] = "ret"
    /\ LET f == frame[g]
           o == objs[f.recv]
       IN  Publish(g, LogObj(o.level,
                             IF f.op = "V" THEN f.n ELSE o.current,
                             f.p,
                             IF f.op = "WithDepth" THEN f.n ELSE o.depth))
    /\ UNCHANGED mem

Emit(g) ==
    /\ pc[g] = "emit"
    /\ LET f == frame[g]
           o == objs[f.recv]
           H == [objs |-> objs, mem |-> mem]
       IN  Finish(g, 0, IF f.op = "Info"
                        THEN log_Info(H, f.recv, f.msg, f.kvs)
                        ELSE log_Error(H, f.recv, f.err, f.msg, f.kvs))
    /\ UNCHANGED <<objs, mem, origin>>

RECURSIVE BaseOrigin(_, _)
BaseOrigin(H, k) ==
    IF k = 0
    THEN << Origin(0, "NewLog", [NoArgs EXCEPT !.n = H.objs[1].level],
                   H.objs[1], << >>) >>
    ELSE Append(BaseOrigin(H, k - 1),
                Origin(k, "WithName", [NoArgs EXCEPT !.name = BaseNames[k]],
                       H.objs[k + 1],
                       SliceElems(H.mem, H.objs[k + 1].prefixes)))

InitConc ==
    \E level \in ConcThresholds :
        /\ objs = BaseHeap(level).objs
        /\ mem = BaseHeap(level).mem
        /\ origin = BaseOrigin(BaseHeap(level), Len(BaseNames))
        /\ last = Call("NewLog", 0, 1, [NoArgs EXCEPT !.n = level], <<>>)
        /\ cur = [g \in Goroutines |-> Base]
        /\ pc = [g \in Goroutines |-> "idle"]
        /\ frame = [g \in Goroutines |-> 0]

NextConc ==
    \E g \in Goroutines :
        \/ \E level \in Levels : Begin(g, "V", [NoArgs EXCEPT !.n = level])
        \/ Begin(g, "WithValues", [NoArgs EXCEPT !.kvs = ConcKVs])
        \/ \E name \in ConcNames :
                Begin(g, "WithName", [NoArgs EXCEPT !.name = name])
        \/ \E depth \in ConcDepths :
                Begin(g, "WithDepth", [NoArgs EXCEPT !.n = depth])
        \/ \E msg \in Msgs :
                Begin(g, "Info", [NoArgs EXCEPT !.msg = msg, !.kvs = ConcKVs])
        \/ \E msg \in Msgs :
                Begin(g, "Error", [NoArgs EXCEPT !.msg = msg, !.err = ErrVal("boom")])
        \/ Load(g)
        \/ Copy(g)
        \/ AppendEntry(g)
        \/ Ret(g)
        \/ Emit(g)

SpecConc == InitConc /\ [][NextConc]_vars

----------------------------------------------------------------------------
(* What a handle should be, from the calls that produced it *)

Prefixes(h) == SliceElems(mem, objs[h].prefixes)

RECURSIVE JoinLeft(_, _)
JoinLeft(elems, sep) ==
    IF Len(elems) = 0 THEN ""
    ELSE IF Len(elems) = 1 THEN elems[1]
    ELSE JoinLeft(SubSeq(elems, 1, Len(elems) - 1), sep) \o sep
             \o elems[Len(elems)]

Tokens(kvs) == [i \in 1..Len(kvs) |-> RenderValue(kvs[i])]

RECURSIVE ExpectedPrefixes(_)
ExpectedPrefixes(h) ==
    LET c == origin[h]
    IN  IF c.op = "NewLog" THEN << >>
        ELSE IF c.op = "WithName" /\ c.name # ""
        THEN Append(ExpectedPrefixes(c.parent), c.name)
        ELSE IF c.op = "WithValues"
        THEN Append(ExpectedPrefixes(c.parent), JoinLeft(Tokens(c.kvs), " "))
        ELSE ExpectedPrefixes(c.parent)

RECURSIVE ExpectedDepth(_)
ExpectedDepth(h) ==
    LET c == origin[h]
    IN  IF c.op = "NewLog" THEN 1
        ELSE IF c.op = "WithDepth" THEN c.n
        ELSE ExpectedDepth(c.parent)

Threshold == origin[1].n

InfoLine(h, msg, kvs) == log_Info(Heap, h, msg, kvs)[1].line

View(h) == FieldsOf(objs[h], Prefixes(h))

Rendering(h) ==
    IF IsLog(h)
    THEN [x \in Msgs \X KVs |-> InfoLine(h, x[1], x[2])]
    ELSE << >>

EmittedBy(op) == last.op = op /\ last.recv # 0 /\ IsLog(last.recv)

----------------------------------------------------------------------------
\* C1: V(L) on any non-null logger of the tree rooted at NewLog(T) returns
\* the silent logger iff L < T, whatever current the receiver carries; the
\* non-null loggers all carry threshold T and their Info and Error calls
\* each make a backend call.
C1_VGatesOnThreshold ==
    /\ \A h \in Handles : IsLog(h) => objs[h].level = Threshold
    /\ \A h \in Handles :
          (origin[h].op = "V" /\ IsLog(origin[h].parent))
              => ((objs[h].kind = "silent") <=> (origin[h].n < Threshold))
    /\ (last.op = "V" /\ IsLog(last.recv))
          => /\ last.ret \in Handles
             /\ (objs[last.ret].kind = "silent") <=> (last.n < Threshold)
    /\ (EmittedBy("Info") \/ EmittedBy("Error")) => Len(last.out) = 1

C1_Witness ==
    \E h \in Handles :
        /\ origin[h].op = "V" /\ origin[h].n = 0
        /\ objs[origin[h].parent].current = 1
        /\ objs[h].kind = "silent"

\* C2: the silent logger offers the operation set of log, each derivation on
\* it returns the silent logger itself, and its Info and Error make no
\* backend call.
C2_NullAbsorbing ==
    /\ \A h \in Handles :
          ~IsLog(h) =>
              {"V", "WithValues", "WithName", "WithDepth", "Info", "Error"}
                  \subseteq MethodSet(objs[h].kind)
    /\ (last.op \in DeriveOps /\ ~IsLog(last.recv)) => last.ret = last.recv
    /\ (last.op \in EmitOps /\ ~IsLog(last.recv)) => last.out = << >>

\* C3: a logger is never changed by the calls made after it was returned:
\* its threshold, current level, prefixes contents and depth, and every
\* line it renders, are the ones it had when it was created.
C3_DerivationKeepsParent ==
    \A h \in Handles :
        /\ View(h) = origin[h].born
        /\ IsLog(h) =>
              \A x \in Msgs \X KVs :
                  InfoLine(h, x[1], x[2])
                      = formatMsg(origin[h].born.prefixes, x[1], x[2])

C3_Witness ==
    \E h \in Handles :
        /\ origin[h].op = "WithName" /\ origin[h].name # ""
        /\ origin[origin[h].parent].op = "WithName"
        /\ origin[origin[h].parent].name = ""
        /\ objs[origin[h].parent].prefixes = objs[1].prefixes
        /\ EmittedBy("Info") /\ last.recv = h

\* C4: the prefixes of a logger are the entries added along its derivation
\* chain, one per non-empty WithName and one per WithValues, in call order,
\* and are rendered joined by ": " in that order.
C4_PrefixesFollowChain ==
    \A h \in Handles :
        IsLog(h) =>
            LET chain == ExpectedPrefixes(h)
                line == InfoLine(h, "failed", << >>)
            IN  /\ Prefixes(h) = chain
                /\ chain = <<"a", "b">> => line = "a: b: failed"
                /\ chain = <<"b", "a">> => line = "b: a: failed"
                /\ JoinLeft(chain, ": ") # ""
                      => line = JoinLeft(chain, ": ") \o ": failed"

C4_Witness ==
    \E h \in Handles :
        /\ IsLog(h)
        /\ origin[h].op = "WithName" /\ origin[h].name = "b"
        /\ origin[origin[h].parent].op = "WithName"
        /\ origin[origin[h].parent].name = "a"
        /\ Prefixes(h) = <<"a", "b">>

\* C5 as stated: the line of Info is prefixes joined by ": ", then ": ",
\* msg, " " and the rendered pairs joined by " ", without the prefix segment
\* exactly when there are no prefix entries and without the pairs segment
\* exactly when no pairs are given.
C5_LineAsStated ==
    EmittedBy("Info") =>
        last.out[1].line =
            (IF Len(Prefixes(last.recv)) = 0 THEN ""
             ELSE JoinLeft(Prefixes(last.recv), ": ") \o ": ")
            \o last.msg
            \o (IF Len(last.kvs) = 0 THEN ""
                ELSE " " \o JoinLeft(Tokens(last.kvs), " "))

\* C5 amended: the prefix segment is left out exactly when the joined
\* prefixes are the empty string (no entries, or a single empty entry) and
\* the pairs segment exactly when the joined rendered pairs are the empty
\* string (no pairs, or a single pair rendering as "").
C5_LineOfInfo ==
    EmittedBy("Info") =>
        last.out[1].line =
            (IF JoinLeft(Prefixes(last.recv), ": ") = "" THEN ""
             ELSE JoinLeft(Prefixes(last.recv), ": ") \o ": ")
            \o last.msg
            \o (IF JoinLeft(Tokens(last.kvs), " ") = "" THEN ""
                ELSE " " \o JoinLeft(Tokens(last.kvs), " "))

C5_Witness ==
    /\ EmittedBy("Info")
    /\ origin[last.recv].op = "WithValues" /\ origin[last.recv].kvs = << >>
    /\ Prefixes(last.recv) = << "" >>
    /\ last.kvs = << StrVal("id"), IntVal(42) >>
    /\ last.out[1].line = "failed id 42"

\* C6: Error(err, msg, pairs...) renders the line Info(msg, err, pairs...)
\* renders on the same logger and hands it to klog.ErrorDepth; without
\* prefixes and pairs, Error(boom, "failed") renders "failed boom".
C6_ErrorRendersErrFirst ==
    EmittedBy("Error") =>
        /\ Len(last.out) = 1
        /\ last.out[1].fn = "ErrorDepth"
        /\ last.out[1].line
              = InfoLine(last.recv, last.msg, <<last.err>> \o last.kvs)
        /\ (/\ Prefixes(last.recv) = << >>
            /\ last.err = ErrVal("boom")
            /\ last.msg = "failed"
            /\ last.kvs = << >>) => last.out[1].line = "failed boom"

C6_Witness ==
    /\ EmittedBy("Error")
    /\ last.err = NilValue
    /\ last.kvs = << StrVal("id"), IntVal(42) >>
    /\ Prefixes(last.recv) = << "a" >>
    /\ last.out[1].fn = "ErrorDepth"
    /\ last.out[1].line = "a: failed <nil> id 42"

\* C7: WithDepth(d) on a non-null logger returns a new logger with the
\* receiver's level, current and prefixes, depth d, and the same rendered
\* text for every message and pairs.
C7_WithDepthChangesDepthOnly ==
    /\ \A h \in Handles :
          (origin[h].op = "WithDepth" /\ IsLog(h)) =>
              LET l == origin[h].parent
              IN  /\ h # l
                  /\ View(h) = [View(l) EXCEPT !.depth = origin[h].n]
                  /\ objs[h].prefixes = objs[l].prefixes
                  /\ Rendering(h) = Rendering(l)
    /\ (last.op = "WithDepth" /\ IsLog(last.recv)) =>
          /\ last.ret \in Handles \ {last.recv}
          /\ origin[last.ret].op = "WithDepth"
          /\ objs[last.ret].depth = last.n

C7_Witness ==
    \E h \in Handles :
        /\ origin[h].op = "WithDepth" /\ IsLog(h)
        /\ Len(Prefixes(origin[h].parent)) > 0
        /\ objs[h].depth # objs[origin[h].parent].depth

\* the derivations a caller can apply to a logger, and the logger a
\* sequence of them leads to from handle h
Derivations ==
    ({"V"} \X Levels \X {""} \X {<< >>})
        \cup ({"WithValues"} \X {0} \X {""} \X CtxKVs)
        \cup ({"WithName"} \X {0} \X Names \X {<< >>})
        \cup ({"WithDepth"} \X Depths \X {""} \X {<< >>})

Derive(H, h, d) ==
    IF H.objs[h].kind = "silent" THEN silent_Derive(H, h)
    ELSE CASE d[1] = "V" -> log_V(H, h, d[2])
           [] d[1] = "WithValues" -> log_WithValues(H, h, d[4])
           [] d[1] = "WithName" -> log_WithName(H, h, d[3])
           [] OTHER -> log_WithDepth(H, h, d[2])

ViewAfter(h, ds) ==
    LET r1 == Derive(Heap, h, ds[1])
        r2 == IF Len(ds) = 1 THEN r1 ELSE Derive(r1, r1.ret, ds[2])
    IN  FieldsOf(r2.objs[r2.ret], SliceElems(r2.mem, r2.objs[r2.ret].prefixes))

DerivationSeqs == { <<d>> : d \in Derivations } \cup (Derivations \X Derivations)

\* C8: L.WithName("") on a non-null logger L is another handle than L with
\* L's fields and L's rendering of every message and pairs, and the same
\* derivations applied to both lead to loggers with equal fields.
C8_EmptyNameIsCopy ==
    /\ (last.op = "WithName" /\ last.name = "" /\ IsLog(last.recv)) =>
          /\ last.ret \in Handles \ {last.recv}
          /\ origin[last.ret].parent = last.recv
          /\ origin[last.ret].op = "WithName" /\ origin[last.ret].name = ""
          /\ \A ds \in DerivationSeqs :
                ViewAfter(last.ret, ds) = ViewAfter(last.recv, ds)
    /\ \A h \in Handles :
          (origin[h].op = "WithName" /\ origin[h].name = "" /\ IsLog(h)) =>
              LET l == origin[h].parent
              IN  /\ h # l
                  /\ View(h) = View(l)
                  /\ Rendering(h) = Rendering(l)

C8_Witness ==
    \E h \in Handles :
        /\ origin[h].op = "WithName" /\ origin[h].name = "" /\ IsLog(h)
        /\ Len(Prefixes(origin[h].parent)) > 0
        /\ last.ret = h

\* the prefixes a call in progress is to give the logger it returns
ExpectedEntry(f) ==
    IF f.op = "WithName" /\ f.name # "" THEN << f.name >>
    ELSE IF f.op = "WithValues" THEN << JoinLeft(Tokens(f.kvs), " ") >>
    ELSE << >>

\* C9: under every interleaving of the goroutines' steps, each logger holds
\* the prefixes of its own derivation chain, each call in progress has
\* built exactly the receiver's chain plus its own entry, and each emitted
\* line is the one the receiver's chain renders.
C9_ChainsIndependent ==
    /\ \A h \in Handles : IsLog(h) => Prefixes(h) = ExpectedPrefixes(h)
    /\ \A g \in Goroutines :
          /\ pc[g] = "ret" =>
                SliceElems(mem, frame[g].p)
                    = ExpectedPrefixes(frame[g].recv) \o ExpectedEntry(frame[g])
          /\ pc[g] \in {"copy", "emit"} =>
                SliceElems(mem, frame[g].src) = ExpectedPrefixes(frame[g].recv)
    /\ (EmittedBy("Info") \/ EmittedBy("Error")) =>
          last.out[1].line =
              formatMsg(ExpectedPrefixes(last.recv), last.msg,
                        IF last.op = "Error" THEN <<last.err>> \o last.kvs
                        ELSE last.kvs)

C9_Witness ==
    /\ pc[1] = "ret" /\ pc[2] = "ret"
    /\ frame[1].recv = Base /\ frame[2].recv = Base
    /\ frame[1].op = "WithName" /\ frame[1].name = "a"
    /\ frame[2].op = "WithValues"
    /\ frame[1].p.arr # frame[2].p.arr

\* C10: Info and Error on a non-null logger make exactly one backend call,
\* with the depth of the most recent WithDepth on the logger's chain, or 1
\* if there is none; V, WithValues and WithName pass depth on unchanged.
C10_DepthFollowsChain ==
    /\ \A h \in Handles : IsLog(h) => objs[h].depth = ExpectedDepth(h)
    /\ (EmittedBy("Info") \/ EmittedBy("Error")) =>
          /\ Len(last.out) = 1
          /\ last.out[1].depth = ExpectedDepth(last.recv)

C10_Witness ==
    /\ EmittedBy("Info")
    /\ origin[last.recv].op = "WithDepth" /\ origin[last.recv].n = 3
    /\ origin[origin[last.recv].parent].op = "WithDepth"
    /\ origin[origin[last.recv].parent].n = 2
    /\ last.out[1].depth = 3

====
